---- MODULE Spec2Model ----
(***************************************************************************)
(* tiktorch: the session/device resource manager behind the gRPC service   *)
(* (exercised by tests/test_server/test_grpc_svc.py) and the dry-run       *)
(* shape-negotiation engine of tiktorch/handler/dryrun.py.                 *)
(***************************************************************************)
EXTENDS Integers, Sequences, FiniteSets, TLC

(***************************************************************************)
(* Bounds of the model.                                                    *)
(***************************************************************************)
\* number of session ids the session manager may hand out in one run
MaxSessions == 3
\* longest device-id list of one CreateModelSession request
MaxReq == 2
\* largest spatial extent of an upper shape bound drawn for the search
MaxExt == 4
\* largest spatial extent of a lower shape bound drawn for the search
MaxLow == 1
\* number of dry_run requests submitted to one engine in one run
MaxJobs == 2

(***************************************************************************)
(* Part I: device registry, session manager and the service facade.        *)
(***************************************************************************)
VARIABLES
    devices,    \* device table: id -> [status, owner]
    sessions,   \* live sessions: session id -> sequence of leased device ids
    nextId,     \* index of the next session id to generate
    lastCall    \* the last service call, its response, and the call before it

svcVars == <<devices, sessions, nextId, lastCall>>

\* devices registered at process start ("cpu" is always present)
DeviceIds == {"cpu", "gpu0"}
\* ids a client may send: the registered ones and one that is not registered
RequestIds == DeviceIds \cup {"tpu9"}
NoOwner == "none"
\* generated session ids, in generation order; "" is the unset protobuf field
IdPool == <<"s1", "s2", "s3", "s4", "s5", "s6">>
EmptyId == ""
\* ids a client may send to Predict / CloseModelSession
ClientIds == {IdPool[i] : i \in 1..Len(IdPool)} \cup {EmptyId, "myid1"}

Range(s) == {s[i] : i \in 1..Len(s)}

\* all non-empty sequences over S of length at most n
SeqsUpTo(S, n) == UNION {[1..k -> S] : k \in 1..n}

LiveIds == DOMAIN sessions

NoListing == <<>>
\* what is remembered of the call before the last one
Brief(c) == [op |-> c.op, ids |-> c.ids, id |-> c.id, result |-> c.result]
\* the record of a service call: operation, arguments, response
Call(op, ids, id, result, listing) ==
    [op |-> op, ids |-> ids, id |-> id, result |-> result, listing |-> listing,
     prev |-> Brief(lastCall)]

\* ---- Device registry -----------------------------------------------------

\* lease(device_id, session_id): AVAILABLE -> IN_USE bound to the session;
\* AlreadyInUse when the device is unknown or already leased
LeaseOneUnchecked(reg, d, sid) ==
    IF d \in DOMAIN reg
    THEN [ok |-> TRUE, reg |-> [reg EXCEPT ![d] = [status |-> "IN_USE", owner |-> sid]]]
    ELSE [ok |-> FALSE, reg |-> reg]
LeaseOne(reg, d, sid) ==
    IF d \in DOMAIN reg /\ reg[d].status = "AVAILABLE"
    THEN [ok |-> TRUE, reg |-> [reg EXCEPT ![d] = [status |-> "IN_USE", owner |-> sid]]]
    ELSE [ok |-> FALSE, reg |-> reg]

\* release(device_id): IN_USE -> AVAILABLE, owner cleared; idempotent
Release(reg, d) ==
    IF d \in DOMAIN reg
    THEN [reg EXCEPT ![d] = [status |-> "AVAILABLE", owner |-> NoOwner]]
    ELSE reg

RECURSIVE ReleaseAll(_, _)
ReleaseAll(reg, ids) ==
    IF ids = <<>> THEN reg
    ELSE ReleaseAll(Release(reg, Head(ids)), Tail(ids))

\* what a failed batch does with the leases acquired so far: roll them back
RollbackNone(reg, acquired) == reg
Rollback(reg, acquired) == ReleaseAll(reg, acquired)

\* batch lease, all-or-nothing: ids[i..] are still to be leased
RECURSIVE LeaseLoop(_, _, _, _)
LeaseLoop(reg, ids, i, sid) ==
    IF i > Len(ids) THEN [ok |-> TRUE, reg |-> reg]
    ELSE LET one == LeaseOne(reg, ids[i], sid)
         IN  IF one.ok
             THEN LeaseLoop(one.reg, ids, i + 1, sid)
             ELSE [ok |-> FALSE, reg |-> Rollback(reg, SubSeq(ids, 1, i - 1))]

LeaseBatch(reg, ids, sid) == LeaseLoop(reg, ids, 1, sid)

\* ---- Session manager -----------------------------------------------------

\* the registry after a session's worker failed to start
AfterWorkerStartErrorLeaky(leased, ids) == leased
AfterWorkerStartError(leased, ids) == ReleaseAll(leased, ids)

\* the registry after close_session; shutdownOk = FALSE is a shutdown timeout
AfterCloseOnlyIfShutdown(reg, ids, shutdownOk) ==
    IF shutdownOk THEN ReleaseAll(reg, ids) ELSE reg
AfterClose(reg, ids, shutdownOk) == ReleaseAll(reg, ids)

\* create_session(model_reference, device_ids)
CreateSession(ids, workerStarts) ==
    /\ nextId <= MaxSessions
    /\ LET sid == IdPool[nextId]
           l   == LeaseBatch(devices, ids, sid)
       IN  IF ~l.ok
           THEN /\ devices' = l.reg
                /\ UNCHANGED <<sessions, nextId>>
                /\ lastCall' = Call("create", ids, EmptyId, "LeaseConflict", NoListing)
           ELSE IF ~workerStarts
           THEN /\ devices' = AfterWorkerStartError(l.reg, ids)
                /\ UNCHANGED <<sessions, nextId>>
                /\ lastCall' = Call("create", ids, EmptyId, "WorkerStartError", NoListing)
           ELSE /\ devices' = l.reg
                /\ sessions' = [s \in LiveIds \cup {sid} |->
                                   IF s = sid THEN ids ELSE sessions[s]]
                /\ nextId' = nextId + 1
                /\ lastCall' = Call("create", ids, sid, "ok", NoListing)

\* the session table without session id
Unregister(id) == [s \in LiveIds \ {id} |-> sessions[s]]

\* close_session(id): shutdown with a bounded wait, then release and unregister
CloseSession(id, shutdownOk) ==
    IF id \notin LiveIds
    THEN /\ UNCHANGED <<devices, sessions, nextId>>
         /\ lastCall' = Call("close", <<>>, id, "NotFound", NoListing)
    ELSE /\ devices' = AfterClose(devices, sessions[id], shutdownOk)
         /\ sessions' = Unregister(id)
         /\ UNCHANGED nextId
         /\ lastCall' = Call("close", sessions[id], id,
                              IF shutdownOk THEN "ok" ELSE "ShutdownTimeout", NoListing)

\* implicit destruction of a session whose RPC channel failed
ChannelFailure(id) ==
    /\ id \in LiveIds
    /\ devices' = ReleaseAll(devices, sessions[id])
    /\ sessions' = Unregister(id)
    /\ UNCHANGED nextId
    /\ lastCall' = Call("channel_closed", sessions[id], id, "ChannelClosed", NoListing)

\* ---- Service facade ------------------------------------------------------

\* the session id check in front of Predict; the second detail string is
\* completed with the id that was sent (lastCall.id)
PredictAnyId(id) ==
    IF id = EmptyId THEN "FAILED_PRECONDITION: model-session-id has not been provided"
    ELSE "ok"
PredictCheck(id) ==
    IF id = EmptyId THEN "FAILED_PRECONDITION: model-session-id has not been provided"
    ELSE IF id \notin LiveIds
    THEN "FAILED_PRECONDITION: model-session with id <id> doesn't exist"
    ELSE "ok"

\* Predict(SessionId, input)
Predict(id) ==
    /\ UNCHANGED <<devices, sessions, nextId>>
    /\ lastCall' = Call("predict", <<>>, id, PredictCheck(id), NoListing)

\* ListDevices(): a snapshot of the device table
ListDevices ==
    /\ UNCHANGED <<devices, sessions, nextId>>
    /\ lastCall' = Call("list", <<>>, EmptyId, "ok",
                         [d \in DeviceIds |-> devices[d].status])

(***************************************************************************)
(* Part II: the shape-negotiation engine (DryRunProcess).                   *)
(***************************************************************************)
VARIABLES
    world,          \* what running the model on a device does (fixed per run)
    shrinkage,      \* self.shrinkage
    find,           \* the frame of find_one_shape: its locals and its position
    lastProbe,      \* the last validate_shape call and what it returned
    config,         \* self.config: the training-shape entries
    training_shape, \* self.training_shape
    valid_shapes,   \* self.valid_shapes
    shutdown_event, \* self.shutdown_event
    dry_run_queue,  \* self.dry_run_queue
    futures,        \* the futures handed out by dry_run, in submission order
    worker,         \* the DryRun thread: its position and its job
    shut,           \* the position of the shutdown() call
    started,        \* the futures whose job was started, in starting order
    resolved        \* the futures that were resolved, in resolution order

\* Python's None; shapes and points are tuples, so None is the empty tuple
None == <<>>
\* an exception object received from a probe subprocess
Err == <<-1>>

\* a batch shape is the tuple (b, y, x); drop_batch leaves (y, x)
Axes == 1..3
drop_batch(shape) == <<shape[2], shape[3]>>
\* Point subtraction, elementwise
PointSub(p, q) == [i \in 1..Len(p) |-> p[i] - q[i]]
\* numpy: lower_limit + diff and upper_limit - lower_limit
VecAdd(p, q) == [i \in 1..Len(p) |-> p[i] + q[i]]
VecSub(p, q) == [i \in 1..Len(p) |-> p[i] - q[i]]

\* elementwise <= of two shapes over the same axes
ShapeLeq(p, q) == \A i \in 1..Len(p) : p[i] <= q[i]

\* the devices of the engine's host
EngineDevices == <<"cpu", "gpu0">>

\* ---- device execution ------------------------------------------------------

\* the output extent of the model for an input extent: an optional halving
\* (pooling), then a constant loss at the borders (valid convolution).
\* world.cap[d] is the largest y extent device d can execute, less
\* world.train_cost when a backward pass is run too; no device runs an empty
\* batch or produces an empty output. world.skew[d] is what the model's
\* implementation on device d cuts off in addition
OutExtent(n) == (IF world.pool THEN n \div 2 ELSE n) - world.shrink

\* _validate_shape in its subprocess: the exception raised by the model on
\* this device for this shape, or output.shape (without the batch axis)
RunOnDevice(d, shape, train_mode) ==
    LET y == OutExtent(shape[2]) - world.skew[d]
        x == OutExtent(shape[3]) - world.skew[d]
    IN  IF shape[1] < 1 THEN Err
        ELSE IF shape[2] + (IF train_mode THEN world.train_cost ELSE 0) > world.cap[d]
        THEN Err
        ELSE IF y < 1 \/ x < 1 THEN Err
        ELSE <<y, x>>

\* what validate_shape does once all devices agree on an output shape
CompareAdopts(recorded, computed) == [ok |-> TRUE, shrinkage |-> computed]
CompareIgnored(recorded, computed) ==
    [ok |-> TRUE, shrinkage |-> IF recorded = None THEN computed ELSE recorded]
CompareOverwrites(recorded, computed) ==
    [ok |-> recorded = None \/ recorded = computed, shrinkage |-> computed]
CompareShrinkage(recorded, computed) ==
    IF recorded = None
    THEN [ok |-> TRUE, shrinkage |-> computed]
    ELSE [ok |-> recorded = computed, shrinkage |-> recorded]

\* validate_shape(devices, shape, train_mode) with self.shrinkage = recorded:
\* the boolean returned, self.shrinkage afterwards, and the shrinkage computed
\* (None when the probe returned before computing one)
ValidateShapeFirstDevice(recorded, devs, shape, train_mode) ==
    LET out == RunOnDevice(devs[1], shape, train_mode)
    IN  IF out = Err
        THEN [ok |-> FALSE, shrinkage |-> recorded, computed |-> None]
        ELSE LET computed == PointSub(drop_batch(shape), out)
                 c == CompareShrinkage(recorded, computed)
             IN  [ok |-> c.ok, shrinkage |-> c.shrinkage, computed |-> computed]
ValidateShape(recorded, devs, shape, train_mode) ==
    LET output_shapes == [i \in 1..Len(devs) |-> RunOnDevice(devs[i], shape, train_mode)]
        out == output_shapes[1]
    IN  IF \E i \in 1..Len(devs) : output_shapes[i] = Err
        THEN [ok |-> FALSE, shrinkage |-> recorded, computed |-> None]
        ELSE IF \E i \in 2..Len(devs) : output_shapes[i] # out
        THEN [ok |-> FALSE, shrinkage |-> recorded, computed |-> None]
        ELSE LET computed == PointSub(drop_batch(shape), out)
                 c == CompareShrinkage(recorded, computed)
             IN  [ok |-> c.ok, shrinkage |-> c.shrinkage, computed |-> computed]

\* ---- find_one_shape --------------------------------------------------------

\* discard is a float in [0, 1); the model draws it as DiscardNum / 4, which
\* floating point represents and multiplies exactly
DiscardDen == 4
Discards == {0, 2, 3}

\* Python's int(): truncation toward zero of a / b, b > 0
TruncDiv(a, b) == IF a >= 0 THEN a \div b ELSE -((-a) \div b)

\* reduced = int((1.0 - discard) * nonzero[diff_i] - 1)
ReducedNoMinusOne(discardNum, n) == TruncDiv((DiscardDen - discardNum) * n, DiscardDen)
ReducedFloor(discardNum, n) == ((DiscardDen - discardNum) * n - DiscardDen) \div DiscardDen
Reduced(discardNum, n) == TruncDiv((DiscardDen - discardNum) * n - DiscardDen, DiscardDen)

\* update_nonzero(diff): the positions of the nonzero entries and their values
NonzeroIndexAll(diff) == [i \in 1..Len(diff) |-> i]
NonzeroIndex(diff) == SelectSeq([i \in 1..Len(diff) |-> i], LAMBDA i : diff[i] # 0)
update_nonzero(diff) ==
    LET idx == NonzeroIndex(diff)
    IN  [nonzero_index |-> idx, nonzero |-> [k \in 1..Len(idx) |-> diff[idx[k]]],
         ndiff |-> Len(idx)]

\* numpy.argsort(nonzero)[::-1]: the positions of nonzero by descending value;
\* argsort's default sort is not stable, so equal values come in any order
Perms(n) == {p \in [1..n -> 1..n] : \A i, j \in 1..n : i # j => p[i] # p[j]}
SearchOrdersAscending(nonzero) ==
    {p \in Perms(Len(nonzero)) :
        \A i \in 1..(Len(nonzero) - 1) : nonzero[p[i]] <= nonzero[p[i + 1]]}
SearchOrders(nonzero) ==
    {p \in Perms(Len(nonzero)) :
        \A i \in 1..(Len(nonzero) - 1) : nonzero[p[i]] >= nonzero[p[i + 1]]}

NoProbe == [n |-> 0, shape |-> None, devices |-> <<>>, train_mode |-> FALSE,
            before |-> None, computed |-> None, ok |-> FALSE, after |-> None]

\* the record of one validate_shape call
Probe(recorded, devs, shape, train_mode, v) ==
    [n |-> 1, shape |-> shape, devices |-> devs, train_mode |-> train_mode,
     before |-> recorded, computed |-> v.computed, ok |-> v.ok, after |-> v.shrinkage]

IdleFind == [pc |-> "idle"]

\* find_one_shape up to its while loop; probes counts the validate_shape calls
\* made so far
FindFrame(lower_limit, upper_limit, devs, train_mode, discardNum) ==
    LET diff == VecSub(upper_limit, lower_limit)
        u == update_nonzero(diff)
    IN  [pc |-> "while", lower_limit |-> lower_limit, upper_limit |-> upper_limit,
         devices |-> devs, train_mode |-> train_mode, discard |-> discardNum,
         diff |-> diff, nonzero_index |-> u.nonzero_index, nonzero |-> u.nonzero,
         ndiff |-> u.ndiff, search_order |-> <<>>, pos |-> 1,
         result |-> None, probes |-> 0]

\* the head of the while loop: leave with None, or order the free dimensions
FindWhile ==
    /\ find.pc = "while"
    /\ IF find.ndiff = 0
       THEN find' = [find EXCEPT !.pc = "done", !.result = None]
       ELSE \E order \in SearchOrders(find.nonzero) :
               find' = [find EXCEPT !.pc = "for", !.search_order = order, !.pos = 1]
    /\ UNCHANGED <<shrinkage, lastProbe>>

\* one iteration of the for loop: probe lower_limit + diff, return it or shrink
\* the slack of this dimension; after the last one, update_nonzero
FindFor ==
    /\ find.pc = "for"
    /\ IF find.pos > Len(find.search_order)
       THEN LET u == update_nonzero(find.diff)
            IN  /\ find' = [find EXCEPT !.pc = "while",
                                        !.nonzero_index = u.nonzero_index,
                                        !.nonzero = u.nonzero, !.ndiff = u.ndiff]
                /\ UNCHANGED <<shrinkage, lastProbe>>
       ELSE LET diff_i == find.search_order[find.pos]
                shape == VecAdd(find.lower_limit, find.diff)
                v == ValidateShape(shrinkage, find.devices, shape, find.train_mode)
                reduced == Reduced(find.discard, find.nonzero[diff_i])
            IN  /\ shrinkage' = v.shrinkage
                /\ lastProbe' = Probe(shrinkage, find.devices, shape, find.train_mode, v)
                /\ IF v.ok
                   THEN find' = [find EXCEPT !.pc = "done", !.result = shape,
                                             !.probes = @ + 1]
                   ELSE find' = [find EXCEPT
                                    !.diff[find.nonzero_index[diff_i]] = reduced,
                                    !.pos = @ + 1, !.probes = @ + 1]

\* ---- the engine: dry_run, the DryRun thread, shutdown -------------------------

\* BatchPointBase.from_spacetime(batch_size, input_channels, spacetime) and
\* Point.add_batch(batch_size): the batch shape of a spatial point
add_batch(point, batch_size) == <<batch_size, point[1], point[2]>>
\* shape_class(): the point whose extents are all zero
ZeroShape == <<0, 0, 0>>

Pending == [status |-> "pending"]
\* after_shutdown is not part of the queued tuple: it notes whether the
\* shutdown event was already set when dry_run queued the request
NoJob == [devices |-> <<>>, training_shape |-> None, valid_shapes |-> None,
          shrinkage |-> None, fut |-> 0, after_shutdown |-> FALSE]
\* what the engine has recorded: self.training_shape, self.valid_shapes,
\* self.shrinkage
Record(ts, vs, sh) == [training_shape |-> ts, valid_shapes |-> vs, shrinkage |-> sh]
\* the DryRun thread between jobs, at pc; at_start is not a variable of the
\* code: it notes what was recorded when the job in flight was taken
Thread(pc) == [pc |-> pc, job |-> NoJob, i |-> 1, acc |-> <<>>, working |-> <<>>,
               at_start |-> Record(None, None, None)]

\* queue.Queue.get: the item taken and the queue left
QueueGetLast(q) == [item |-> q[Len(q)], rest |-> SubSeq(q, 1, Len(q) - 1)]
QueueGet(q) == [item |-> Head(q), rest |-> Tail(q)]

\* dry_run(devices, training_shape, valid_shapes, shrinkage): a new future is
\* queued with the arguments and returned
dry_run(devs, ts, vs, sh) ==
    /\ Len(futures) < MaxJobs
    /\ futures' = Append(futures, Pending)
    /\ dry_run_queue' = Append(dry_run_queue,
                               [devices |-> devs, training_shape |-> ts,
                                valid_shapes |-> vs, shrinkage |-> sh,
                                fut |-> Len(futures) + 1,
                                after_shutdown |-> shutdown_event])
    /\ UNCHANGED <<shrinkage, find, lastProbe, training_shape, valid_shapes,
                   shutdown_event, worker, shut, started, resolved>>

\* _dry_run_worker: the loop condition
WorkerLoop ==
    /\ worker.pc = "loop"
    /\ worker' = Thread(IF shutdown_event THEN "exited" ELSE "get")
    /\ UNCHANGED <<shrinkage, find, lastProbe, training_shape, valid_shapes,
                   shutdown_event, dry_run_queue, futures, shut, started, resolved>>

\* _dry_run_worker: dry_run_queue.get(block=True, timeout=1) returns a job and
\* _dry_run is entered
WorkerGet ==
    /\ worker.pc = "get"
    /\ dry_run_queue # <<>>
    /\ LET g == QueueGet(dry_run_queue)
       IN  /\ dry_run_queue' = g.rest
           /\ worker' = [Thread("dry_run") EXCEPT
                            !.job = g.item,
                            !.at_start = Record(training_shape, valid_shapes, shrinkage)]
           /\ started' = Append(started, g.item.fut)
    /\ UNCHANGED <<shrinkage, find, lastProbe, training_shape, valid_shapes,
                   shutdown_event, futures, shut, resolved>>

\* _dry_run_worker: the get times out on an empty queue
WorkerTimeout ==
    /\ worker.pc = "get"
    /\ dry_run_queue = <<>>
    /\ worker' = Thread("loop")
    /\ UNCHANGED <<shrinkage, find, lastProbe, training_shape, valid_shapes,
                   shutdown_event, dry_run_queue, futures, shut, started, resolved>>

\* fut.set_exception(e) in the except clause of _dry_run; back to the loop
FailStopsWorker(e) ==
    /\ futures' = [futures EXCEPT ![worker.job.fut] = [status |-> "exception", error |-> e]]
    /\ resolved' = Append(resolved, worker.job.fut)
    /\ worker' = Thread("exited")
FailLeavesPending(e) ==
    /\ worker' = Thread("loop")
    /\ UNCHANGED <<futures, resolved>>
Fail(e) ==
    /\ futures' = [futures EXCEPT ![worker.job.fut] = [status |-> "exception", error |-> e]]
    /\ resolved' = Append(resolved, worker.job.fut)
    /\ worker' = Thread("loop")

\* fut.set_result((devices, training_shape, valid_shapes, shrinkage))
SetResult(ts, vs, sh) ==
    /\ futures' = [futures EXCEPT ![worker.job.fut] =
                      [status |-> "result", devices |-> worker.job.devices,
                       training_shape |-> ts, valid_shapes |-> vs, shrinkage |-> sh]]
    /\ resolved' = Append(resolved, worker.job.fut)
    /\ worker' = Thread("loop")

\* minimal_device_test: the devices on which the toy model runs
MinimalDeviceTest(devs) ==
    SelectSeq(devs, LAMBDA d : RunOnDevice(d, <<1, 1, 1>>, FALSE) # Err)

\* _dry_run up to the training shape: the device list, the supplied shrinkage,
\* the minimal device test, the supplied training shape
DryRunBeginIgnoresMismatch ==
    /\ worker.pc = "dry_run"
    /\ LET job == worker.job
       IN  IF job.devices = <<>>
           THEN /\ Fail("ValueError: Dry run on empty device list")
                /\ UNCHANGED shrinkage
           ELSE /\ shrinkage' = IF shrinkage = None THEN job.shrinkage ELSE shrinkage
                /\ worker' = [worker EXCEPT
                                 !.pc = IF training_shape = None THEN "train" ELSE "valid",
                                 !.working = MinimalDeviceTest(job.devices)]
                /\ UNCHANGED <<futures, resolved>>
    /\ UNCHANGED <<find, lastProbe, training_shape, valid_shapes, shutdown_event,
                   dry_run_queue, shut, started>>
DryRunBeginRecordsFirst ==
    /\ worker.pc = "dry_run"
    /\ LET job == worker.job
       IN  IF shrinkage # None /\ job.shrinkage # None /\ job.shrinkage # shrinkage
           THEN /\ Fail("ValueError: given shrinkage incompatible with self.shrinkage")
                /\ UNCHANGED shrinkage
           ELSE /\ shrinkage' = IF shrinkage = None THEN job.shrinkage ELSE shrinkage
                /\ IF job.devices = <<>>
                   THEN Fail("ValueError: Dry run on empty device list")
                   ELSE IF training_shape = None
                   THEN /\ worker' = [worker EXCEPT !.pc = "train",
                                         !.working = MinimalDeviceTest(job.devices)]
                        /\ UNCHANGED <<futures, resolved>>
                   ELSE IF job.training_shape # None /\ training_shape # job.training_shape
                   THEN Fail("ValueError: given training_shape incompatible with self.training_shape")
                   ELSE /\ worker' = [worker EXCEPT !.pc = "valid",
                                         !.working = MinimalDeviceTest(job.devices)]
                        /\ UNCHANGED <<futures, resolved>>
    /\ UNCHANGED <<find, lastProbe, training_shape, valid_shapes, shutdown_event,
                   dry_run_queue, shut, started>>
DryRunBegin ==
    /\ worker.pc = "dry_run"
    /\ LET job == worker.job
       IN  IF job.devices = <<>>
           THEN /\ Fail("ValueError: Dry run on empty device list")
                /\ UNCHANGED shrinkage
           ELSE IF shrinkage # None /\ job.shrinkage # None /\ job.shrinkage # shrinkage
           THEN /\ Fail("ValueError: given shrinkage incompatible with self.shrinkage")
                /\ UNCHANGED shrinkage
           ELSE /\ shrinkage' = IF shrinkage = None THEN job.shrinkage ELSE shrinkage
                /\ IF training_shape = None
                   THEN /\ worker' = [worker EXCEPT !.pc = "train",
                                         !.working = MinimalDeviceTest(job.devices)]
                        /\ UNCHANGED <<futures, resolved>>
                   ELSE IF job.training_shape # None /\ training_shape # job.training_shape
                   THEN Fail("ValueError: given training_shape incompatible with self.training_shape")
                   ELSE /\ worker' = [worker EXCEPT !.pc = "valid",
                                         !.working = MinimalDeviceTest(job.devices)]
                        /\ UNCHANGED <<futures, resolved>>
    /\ UNCHANGED <<find, lastProbe, training_shape, valid_shapes, shutdown_event,
                   dry_run_queue, shut, started>>

\* _determine_training_shape with TRAINING_SHAPE in the configuration: the
\* pinned shape is checked against the bounds and probed in train mode
PinnedUnchecked ==
    LET job == worker.job
        batch == add_batch(IF job.training_shape = None THEN config.training_shape
                           ELSE job.training_shape, config.batch_size)
        v == ValidateShape(shrinkage, job.devices, batch, TRUE)
    IN  /\ shrinkage' = v.shrinkage
        /\ lastProbe' = Probe(shrinkage, job.devices, batch, TRUE, v)
        /\ IF v.ok
           THEN /\ training_shape' = drop_batch(batch)
                /\ worker' = [worker EXCEPT !.pc = "valid"]
                /\ UNCHANGED <<futures, resolved>>
           ELSE /\ Fail("ValueError: training_shape could not be processed")
                /\ UNCHANGED training_shape
PinnedTrainingShape ==
    LET job == worker.job
        batch == add_batch(IF job.training_shape = None THEN config.training_shape
                           ELSE job.training_shape, config.batch_size)
        lower == IF config.lower = None THEN ZeroShape
                 ELSE add_batch(config.lower, config.batch_size)
        v == ValidateShape(shrinkage, job.devices, batch, TRUE)
    IN  IF job.training_shape # None /\ job.training_shape # config.training_shape
        THEN /\ Fail("AssertionError: training shape unequal to config training shape")
             /\ UNCHANGED <<shrinkage, lastProbe, training_shape>>
        ELSE IF config.upper # None
                /\ ~ShapeLeq(batch, add_batch(config.upper, config.batch_size))
        THEN /\ Fail("ValueError: training_shape incompatible with upper bound")
             /\ UNCHANGED <<shrinkage, lastProbe, training_shape>>
        ELSE IF ~ShapeLeq(lower, batch)
        THEN /\ Fail("ValueError: lower bound incompatible with training_shape")
             /\ UNCHANGED <<shrinkage, lastProbe, training_shape>>
        ELSE /\ shrinkage' = v.shrinkage
             /\ lastProbe' = Probe(shrinkage, job.devices, batch, TRUE, v)
             /\ IF v.ok
                THEN /\ training_shape' = drop_batch(batch)
                     /\ worker' = [worker EXCEPT !.pc = "valid"]
                     /\ UNCHANGED <<futures, resolved>>
                ELSE /\ Fail("ValueError: training_shape could not be processed")
                     /\ UNCHANGED training_shape

\* _determine_training_shape without TRAINING_SHAPE: the bounds are read and
\* find_one_shape is entered with its default train_mode and discard
SearchTrainingShape ==
    LET job == worker.job
        upper == add_batch(config.upper, config.batch_size)
        lower == IF config.lower = None THEN ZeroShape
                 ELSE add_batch(config.lower, config.batch_size)
    IN  IF config.upper = None
        THEN /\ Fail("ValueError: config is missing training_shape and/or upper bound")
             /\ UNCHANGED find
        ELSE IF ~ShapeLeq(lower, upper)
        THEN /\ Fail("ValueError: lower bound incompatible with upper bound")
             /\ UNCHANGED find
        ELSE /\ find' = FindFrame(lower, upper, job.devices, FALSE, 0)
             /\ worker' = [worker EXCEPT !.pc = "find"]
             /\ UNCHANGED <<futures, resolved>>

DetermineTrainingShape ==
    /\ worker.pc = "train"
    /\ IF config.training_shape # None
       THEN PinnedTrainingShape /\ UNCHANGED find
       ELSE SearchTrainingShape /\ UNCHANGED <<shrinkage, lastProbe, training_shape>>
    /\ UNCHANGED <<valid_shapes, shutdown_event, dry_run_queue, shut, started>>

\* a step of find_one_shape inside the job
SearchStep ==
    /\ worker.pc = "find"
    /\ FindWhile \/ FindFor
    /\ UNCHANGED <<training_shape, valid_shapes, shutdown_event, dry_run_queue,
                   futures, worker, shut, started, resolved>>

\* find_one_shape has returned: training_shape.drop_batch()
SearchReturnDefault ==
    /\ worker.pc = "find"
    /\ find.pc = "done"
    /\ find' = IdleFind
    /\ training_shape' = drop_batch(IF find.result = None THEN find.lower_limit
                                    ELSE find.result)
    /\ worker' = [worker EXCEPT !.pc = "valid"]
    /\ UNCHANGED <<futures, resolved>>
    /\ UNCHANGED <<shrinkage, lastProbe, valid_shapes, shutdown_event, dry_run_queue,
                   shut, started>>
SearchReturn ==
    /\ worker.pc = "find"
    /\ find.pc = "done"
    /\ find' = IdleFind
    /\ IF find.result = None
       THEN /\ Fail("AttributeError: 'NoneType' object has no attribute 'drop_batch'")
            /\ UNCHANGED training_shape
       ELSE /\ training_shape' = drop_batch(find.result)
            /\ worker' = [worker EXCEPT !.pc = "valid"]
            /\ UNCHANGED <<futures, resolved>>
    /\ UNCHANGED <<shrinkage, lastProbe, valid_shapes, shutdown_event, dry_run_queue,
                   shut, started>>

\* _determine_valid_shapes and the end of _dry_run: without supplied shapes
\* [training_shape]; otherwise one validate_shape result per supplied shape,
\* one probe per step; then fut.set_result
DetermineValidShapes ==
    /\ worker.pc = "valid"
    /\ LET job == worker.job
       IN  IF job.valid_shapes = None
           THEN /\ valid_shapes' = <<training_shape>>
                /\ SetResult(training_shape, <<training_shape>>, shrinkage)
                /\ UNCHANGED <<shrinkage, lastProbe>>
           ELSE IF worker.i <= Len(job.valid_shapes)
           THEN LET shape == add_batch(job.valid_shapes[worker.i], 1)
                    v == ValidateShape(shrinkage, job.devices, shape, FALSE)
                IN  /\ shrinkage' = v.shrinkage
                    /\ lastProbe' = Probe(shrinkage, job.devices, shape, FALSE, v)
                    /\ worker' = [worker EXCEPT !.i = @ + 1, !.acc = Append(@, v.ok)]
                    /\ UNCHANGED <<valid_shapes, futures, resolved>>
           ELSE /\ valid_shapes' = worker.acc
                /\ SetResult(training_shape, worker.acc, shrinkage)
                /\ UNCHANGED <<shrinkage, lastProbe>>
    /\ UNCHANGED <<find, training_shape, shutdown_event, dry_run_queue, shut, started>>

\* shutdown(): the event is set and the thread is joined
ShutdownCall ==
    /\ shut = "none"
    /\ shutdown_event' = TRUE
    /\ shut' = "join"
    /\ UNCHANGED <<shrinkage, find, lastProbe, training_shape, valid_shapes,
                   dry_run_queue, futures, worker, started, resolved>>

\* shutdown(): join(timeout=20) returns, the thread stopped or not; Shutdown()
\* is returned
ShutdownReturn ==
    /\ shut = "join"
    /\ shut' = IF worker.pc = "exited" THEN "returned" ELSE "returned after timeout"
    /\ UNCHANGED <<shrinkage, find, lastProbe, training_shape, valid_shapes,
                   shutdown_event, dry_run_queue, futures, worker, started, resolved>>

fixedVars == <<world, config>>
probeVars == <<shrinkage, find, lastProbe>>
recordVars == <<training_shape, valid_shapes>>
threadVars == <<shutdown_event, dry_run_queue, futures, worker, shut, started, resolved>>
engineVars == <<fixedVars, probeVars, recordVars, threadVars>>
vars == <<devices, sessions, nextId, lastCall, world, config, shrinkage, find, lastProbe,
          training_shape, valid_shapes, shutdown_event, dry_run_queue, futures, worker,
          shut, started, resolved>>

(***************************************************************************)
(* Specifications.                                                         *)
(***************************************************************************)

\* ---- the service: sessions and devices, no engine running ------------------

SvcInit ==
    /\ devices = [d \in DeviceIds |-> [status |-> "AVAILABLE", owner |-> NoOwner]]
    /\ sessions = <<>>
    /\ nextId = 1
    /\ lastCall = [op |-> "none", ids |-> <<>>, id |-> EmptyId, result |-> "none",
                   listing |-> NoListing,
                   prev |-> [op |-> "none", ids |-> <<>>, id |-> EmptyId,
                             result |-> "none"]]

\* a model that works on every device for every shape, keeping the extents
NoSkew == [d \in Range(EngineDevices) |-> 0]
PlainWorld == [cap |-> [d \in Range(EngineDevices) |-> MaxExt], shrink |-> 0,
               pool |-> FALSE, train_cost |-> 0, skew |-> NoSkew]

\* a configuration with only an upper bound
PlainConfig == [training_shape |-> None, lower |-> None, upper |-> <<MaxExt, MaxExt>>,
                batch_size |-> 1]

\* DryRunProcess.__init__: nothing recorded, an empty queue, the thread started
EngineStart ==
    /\ shrinkage = None
    /\ training_shape = None
    /\ valid_shapes = None
    /\ shutdown_event = FALSE
    /\ dry_run_queue = <<>>
    /\ futures = <<>>
    /\ worker = Thread("loop")
    /\ shut = "none"
    /\ started = <<>>
    /\ resolved = <<>>
    /\ find = IdleFind
    /\ lastProbe = NoProbe

EngineIdle ==
    /\ world = PlainWorld
    /\ config = PlainConfig
    /\ EngineStart

SessionInit == SvcInit /\ EngineIdle
SessionNext ==
    \/ \E ids \in SeqsUpTo(RequestIds, MaxReq), w \in BOOLEAN :
          CreateSession(ids, w) /\ UNCHANGED engineVars
    \/ \E id \in ClientIds, ok \in BOOLEAN : CloseSession(id, ok) /\ UNCHANGED engineVars
    \/ \E id \in ClientIds : ChannelFailure(id) /\ UNCHANGED engineVars
    \/ \E id \in ClientIds : Predict(id) /\ UNCHANGED engineVars
    \/ ListDevices /\ UNCHANGED engineVars
SpecSession == SessionInit /\ [][SessionNext]_vars

\* ---- find_one_shape on drawn inputs ----------------------------------------

\* bounds as batch shapes with batch size 1: a missing lower bound is the
\* all-zero point of the shape class
LowerBounds == {<<1, y, x>> : y \in 0..MaxLow, x \in 0..MaxLow}
UpperBounds == {<<1, y, x>> : y \in 1..MaxExt, x \in 1..MaxExt}
Worlds == [cap : [Range(EngineDevices) -> 0..MaxExt], shrink : {0, 1}, pool : BOOLEAN,
           train_cost : {0, 1}, skew : [Range(EngineDevices) -> {0, 1}]]
\* in the search runs the second device is at most one extent short, and the
\* probes run without a backward pass
FindWorlds ==
    {w \in Worlds : w.cap["gpu0"] >= MaxExt - 1 /\ w.train_cost = 0 /\ w.skew = NoSkew}
RecordedShrinkages == {None, <<0, 0>>, <<1, 1>>}

\* the end-to-end scenario: bounds (1, 4, 4) and (1, 64, 64), a probe that
\* accepts exactly the shapes with h <= 32, the default discard
ScenarioLower == <<1, 4, 4>>
ScenarioUpper == <<1, 64, 64>>
ScenarioWorld == [cap |-> [d \in Range(EngineDevices) |-> 32], shrink |-> 0,
                  pool |-> FALSE, train_cost |-> 0, skew |-> NoSkew]

FindInit ==
    /\ SvcInit
    /\ config = PlainConfig
    /\ training_shape = None
    /\ valid_shapes = None
    /\ shutdown_event = FALSE
    /\ dry_run_queue = <<>>
    /\ futures = <<>>
    /\ worker = Thread("find")
    /\ shut = "none"
    /\ started = <<>>
    /\ resolved = <<>>
    /\ lastProbe = NoProbe
    /\ \/ /\ world \in FindWorlds
          /\ shrinkage \in RecordedShrinkages
          /\ \E lower \in LowerBounds, upper \in UpperBounds, discard \in Discards :
                /\ ShapeLeq(lower, upper)
                /\ find = FindFrame(lower, upper, EngineDevices, FALSE, discard)
       \/ /\ world = ScenarioWorld
          /\ shrinkage = None
          /\ find = FindFrame(ScenarioLower, ScenarioUpper, EngineDevices, FALSE, 0)

FindNext ==
    \/ FindWhile /\ UNCHANGED <<svcVars, fixedVars, recordVars, threadVars>>
    \/ FindFor /\ UNCHANGED <<svcVars, fixedVars, recordVars, threadVars>>
SpecFind == FindInit /\ [][FindNext]_vars
\* find_one_shape runs in the worker thread, which is always scheduled again
SpecFindFair == SpecFind /\ WF_vars(FindNext)

\* ---- validate_shape on drawn inputs ------------------------------------------

\* hosts whose devices differ in what they can run and in the output they give
ProbeWorlds ==
    {w \in Worlds : w.cap["cpu"] \in {2, MaxExt} /\ w.cap["gpu0"] \in {0, 2, MaxExt}}
ProbeShapes == {<<1, y, x>> : y \in {1, 2, MaxExt}, x \in {1, 2, MaxExt}}
ProbeDevices == {<<"cpu">>, <<"cpu", "gpu0">>, <<"gpu0", "cpu">>}

\* a call of validate_shape(devices, shape, train_mode)
ValidateShapeCall(devs, shape, train_mode) ==
    LET v == ValidateShape(shrinkage, devs, shape, train_mode)
    IN  /\ shrinkage' = v.shrinkage
        /\ lastProbe' = Probe(shrinkage, devs, shape, train_mode, v)
        /\ UNCHANGED <<svcVars, fixedVars, find, recordVars, threadVars>>

ProbeInit ==
    /\ SvcInit
    /\ world \in ProbeWorlds
    /\ config = PlainConfig
    /\ shrinkage \in RecordedShrinkages
    /\ training_shape = None
    /\ valid_shapes = None
    /\ shutdown_event = FALSE
    /\ dry_run_queue = <<>>
    /\ futures = <<>>
    /\ worker = Thread("loop")
    /\ shut = "none"
    /\ started = <<>>
    /\ resolved = <<>>
    /\ find = IdleFind
    /\ lastProbe = NoProbe

ProbeNext ==
    \E devs \in ProbeDevices, shape \in ProbeShapes, train_mode \in BOOLEAN :
        ValidateShapeCall(devs, shape, train_mode)
SpecProbe == ProbeInit /\ [][ProbeNext]_vars

\* ---- the engine under concurrent callers ----------------------------------

\* the calls callers make: dry_run(devices, training_shape, valid_shapes,
\* shrinkage) with one or two devices and nothing else, with no device, with
\* a shrinkage, with a training shape and a shrinkage, with shapes to validate;
\* the call with no device supplies a training shape and a shrinkage
JobArgs ==
    {<<<<"cpu">>, None, None, None>>,
     <<<<"cpu", "gpu0">>, None, None, None>>,
     <<<<>>, <<2, 2>>, None, <<1, 1>>>>,
     <<<<"cpu">>, None, None, <<1, 1>>>>,
     <<<<"cpu">>, <<2, 2>>, None, <<0, 0>>>>,
     <<<<"cpu">>, None, <<<<1, 1>>, <<2, 2>>>>, None>>}

\* configurations: a pinned training shape, a search between two bounds, a
\* search below an upper bound only, neither a shape nor an upper bound; a
\* pinned shape below the lower bound, one above the upper bound, one with a
\* lower bound only
Configs ==
    {[training_shape |-> <<2, 2>>, lower |-> None, upper |-> <<3, 3>>, batch_size |-> 1],
     [training_shape |-> None, lower |-> <<1, 1>>, upper |-> <<3, 3>>, batch_size |-> 1],
     [training_shape |-> None, lower |-> None, upper |-> <<2, 2>>, batch_size |-> 1],
     [training_shape |-> None, lower |-> None, upper |-> None, batch_size |-> 1],
     [training_shape |-> <<2, 2>>, lower |-> <<3, 3>>, upper |-> None, batch_size |-> 1],
     [training_shape |-> <<3, 3>>, lower |-> None, upper |-> <<2, 2>>, batch_size |-> 1],
     [training_shape |-> <<2, 2>>, lower |-> <<1, 1>>, upper |-> None, batch_size |-> 1]}

\* a host whose devices run a forward pass up to extent 3 and a forward and
\* backward pass up to extent 2
TrainCostWorld == [cap |-> [d \in Range(EngineDevices) |-> 3], shrink |-> 0,
                   pool |-> FALSE, train_cost |-> 1, skew |-> NoSkew]

\* models and hosts: the first device runs every shape or only the small
\* ones, the second one may be unusable; or the host above
EngineWorlds ==
    {w \in Worlds : \/ /\ w.cap["cpu"] \in {2, MaxExt}
                       /\ w.cap["gpu0"] \in {0, MaxExt}
                       /\ w.train_cost = 0
                       /\ w.skew = NoSkew
                    \/ w = TrainCostWorld}

EngineInit ==
    /\ SvcInit
    /\ world \in EngineWorlds
    /\ config \in Configs
    /\ EngineStart

EngineNext ==
    \/ \E a \in JobArgs : dry_run(a[1], a[2], a[3], a[4]) /\ UNCHANGED <<svcVars, fixedVars>>
    \/ WorkerLoop /\ UNCHANGED <<svcVars, fixedVars>>
    \/ WorkerGet /\ UNCHANGED <<svcVars, fixedVars>>
    \/ WorkerTimeout /\ UNCHANGED <<svcVars, fixedVars>>
    \/ DryRunBegin /\ UNCHANGED <<svcVars, fixedVars>>
    \/ DetermineTrainingShape /\ UNCHANGED <<svcVars, fixedVars>>
    \/ SearchStep /\ UNCHANGED <<svcVars, fixedVars>>
    \/ SearchReturn /\ UNCHANGED <<svcVars, fixedVars>>
    \/ DetermineValidShapes /\ UNCHANGED <<svcVars, fixedVars>>
    \/ ShutdownCall /\ UNCHANGED <<svcVars, fixedVars>>
    \/ ShutdownReturn /\ UNCHANGED <<svcVars, fixedVars>>

SpecEngine == EngineInit /\ [][EngineNext]_vars

\* the steps of the DryRun thread
WorkerNext ==
    \/ WorkerLoop \/ WorkerGet \/ WorkerTimeout \/ DryRunBegin
    \/ DetermineTrainingShape \/ SearchStep \/ SearchReturn \/ DetermineValidShapes

\* ---- the engine's queue and thread under fair scheduling ---------------------

\* the calls made in these runs: one device, no device, two devices, a
\* training shape no configuration pins
QueueJobArgs ==
    {<<<<"cpu">>, None, None, None>>,
     <<<<>>, None, None, <<1, 1>>>>,
     <<<<"cpu", "gpu0">>, None, None, None>>,
     <<<<"cpu">>, <<3, 3>>, None, None>>}

\* a model that keeps the extents; the second device may be unusable
QueueWorlds == {w \in EngineWorlds : w.cap["cpu"] = MaxExt /\ w.shrink = 0 /\ ~w.pool}

QueueInit ==
    /\ SvcInit
    /\ world \in QueueWorlds
    /\ config \in Configs
    /\ EngineStart

QueueNext ==
    \/ \E a \in QueueJobArgs : dry_run(a[1], a[2], a[3], a[4]) /\ UNCHANGED <<svcVars, fixedVars>>
    \/ WorkerLoop /\ UNCHANGED <<svcVars, fixedVars>>
    \/ WorkerGet /\ UNCHANGED <<svcVars, fixedVars>>
    \/ WorkerTimeout /\ UNCHANGED <<svcVars, fixedVars>>
    \/ DryRunBegin /\ UNCHANGED <<svcVars, fixedVars>>
    \/ DetermineTrainingShape /\ UNCHANGED <<svcVars, fixedVars>>
    \/ SearchStep /\ UNCHANGED <<svcVars, fixedVars>>
    \/ SearchReturn /\ UNCHANGED <<svcVars, fixedVars>>
    \/ DetermineValidShapes /\ UNCHANGED <<svcVars, fixedVars>>
    \/ ShutdownCall /\ UNCHANGED <<svcVars, fixedVars>>
    \/ ShutdownReturn /\ UNCHANGED <<svcVars, fixedVars>>

\* the DryRun thread is always scheduled again, and join(timeout=20) returns;
\* callers are free to call dry_run and shutdown or not
SpecEngineFair ==
    /\ QueueInit /\ [][QueueNext]_vars
    /\ WF_vars(WorkerNext /\ UNCHANGED <<svcVars, fixedVars>>)
    /\ WF_vars(ShutdownReturn /\ UNCHANGED <<svcVars, fixedVars>>)

(***************************************************************************)
(* Claims about the session manager and the device registry.               *)
(***************************************************************************)

\* the live sessions whose lease sequence contains device d
Holders(d) == {s \in LiveIds : d \in Range(sessions[s])}

\* C1: in every reachable state a device is IN_USE iff exactly one live
\* session's lease set contains it, and AVAILABLE otherwise; the owner recorded
\* for it is that session, and a ListDevices response shows these statuses.
C1_InUseIffLeased ==
    /\ \A d \in DeviceIds :
          /\ devices[d].status \in {"AVAILABLE", "IN_USE"}
          /\ devices[d].status = "IN_USE" <=> Cardinality(Holders(d)) = 1
          /\ devices[d].status = "AVAILABLE" <=> Holders(d) = {}
          /\ devices[d].status = "IN_USE" => Holders(d) = {devices[d].owner}
    /\ lastCall.op = "list" =>
          \A d \in DeviceIds : lastCall.listing[d] = devices[d].status

C1_Witness ==
    /\ LiveIds # {}
    /\ devices["cpu"].status = "IN_USE" /\ devices["gpu0"].status = "AVAILABLE"
    /\ lastCall.op = "list"
    /\ lastCall.prev.op = "create" /\ lastCall.prev.result = "WorkerStartError"
    /\ lastCall.prev.ids = <<"gpu0">>

\* C2: a close_session step on a live session leaves every device the session
\* held AVAILABLE and the session unregistered, whether shutdown returned in
\* time or timed out.
C2_CloseReleases ==
    [][(lastCall'.op = "close" /\ lastCall'.id \in LiveIds) =>
          /\ \A d \in Range(sessions[lastCall'.id]) :
                 devices'[d].status = "AVAILABLE" /\ devices'[d].owner = NoOwner
          /\ lastCall'.id \notin DOMAIN sessions'
          /\ lastCall'.result \in {"ok", "ShutdownTimeout"}]_vars

C2_Witness ==
    /\ lastCall.op = "close" /\ lastCall.result = "ShutdownTimeout"
    /\ Len(lastCall.ids) = 2
    /\ \A d \in Range(lastCall.ids) : devices[d].status = "AVAILABLE"
    /\ lastCall.id \notin LiveIds

\* C3: a create_session step whose device list names a device that is IN_USE
\* or not registered reports LeaseConflict and leaves the device table (status
\* and owner of every device) and the session table as they were.
C3_LeaseAllOrNothing ==
    [][(/\ lastCall'.op = "create"
        /\ \E i \in 1..Len(lastCall'.ids) :
              \/ lastCall'.ids[i] \notin DeviceIds
              \/ devices[lastCall'.ids[i]].status = "IN_USE") =>
          /\ lastCall'.result = "LeaseConflict"
          /\ devices' = devices
          /\ sessions' = sessions]_vars

C3_Witness ==
    /\ lastCall.op = "create" /\ lastCall.result = "LeaseConflict"
    /\ lastCall.ids = <<"gpu0", "cpu">>
    /\ devices["cpu"].status = "IN_USE"
    /\ devices["gpu0"].status = "AVAILABLE"

\* C4: while a live session holds "cpu", a create_session step requesting
\* "cpu" ends in that same step with LeaseConflict and changes neither the
\* holder's lease nor the session table; once "cpu" is AVAILABLE again (its
\* holder closed), a create_session for "cpu" whose worker starts succeeds
\* and the new session owns "cpu".
C4_ExclusiveLease ==
    [][(lastCall'.op = "create" /\ "cpu" \in Range(lastCall'.ids)) =>
          /\ devices["cpu"].status = "IN_USE" =>
                /\ lastCall'.result = "LeaseConflict"
                /\ devices'["cpu"] = devices["cpu"]
                /\ sessions' = sessions
          /\ (/\ devices["cpu"].status = "AVAILABLE"
              /\ lastCall'.ids = <<"cpu">>
              /\ lastCall'.result # "WorkerStartError") =>
                /\ lastCall'.result = "ok"
                /\ lastCall'.id \in DOMAIN sessions' \ LiveIds
                /\ devices'["cpu"] = [status |-> "IN_USE", owner |-> lastCall'.id]]_vars

C4_Witness ==
    /\ lastCall.op = "create" /\ lastCall.ids = <<"cpu">> /\ lastCall.result = "ok"
    /\ lastCall.prev.op = "close" /\ lastCall.prev.ids = <<"cpu">>
    /\ devices["cpu"].owner = lastCall.id

\* session ids that were generated and are no longer live
ClosedIds == {IdPool[i] : i \in 1..(nextId - 1)} \ LiveIds

\* C5: Predict fails with a failed-precondition error exactly when its
\* session id references no live session: "has not been provided" for the
\* empty id, "doesn't exist" for a non-empty id that was never created or is
\* already closed; with a live session's id neither error is raised.
C5_PredictPrecondition ==
    lastCall.op = "predict" =>
        /\ lastCall.id = EmptyId =>
              lastCall.result = "FAILED_PRECONDITION: model-session-id has not been provided"
        /\ (lastCall.id # EmptyId /\ lastCall.id \notin LiveIds) =>
              lastCall.result = "FAILED_PRECONDITION: model-session with id <id> doesn't exist"
        /\ lastCall.id \in LiveIds => lastCall.result = "ok"

C5_Witness ==
    /\ lastCall.op = "predict"
    /\ lastCall.id \in ClosedIds
    /\ lastCall.result = "FAILED_PRECONDITION: model-session with id <id> doesn't exist"
    /\ LiveIds # {}

(***************************************************************************)
(* Claims about find_one_shape.                                            *)
(***************************************************************************)

RECURSIVE SumTo(_, _)
SumTo(v, n) == IF n = 0 THEN 0 ELSE v[n] + SumTo(v, n - 1)
\* the sum of the entries of a vector
Sum(v) == SumTo(v, Len(v))

FindActive == find.pc # "idle"
FindDone == find.pc = "done"
\* upper_limit - lower_limit, the slack the search starts from
InitialSlack == VecSub(find.upper_limit, find.lower_limit)
\* the shapes s with lower_limit <= s <= upper_limit
SearchBox ==
    {<<find.lower_limit[1], y, x>> :
        y \in find.lower_limit[2]..find.upper_limit[2],
        x \in find.lower_limit[3]..find.upper_limit[3]}
\* the validity probe on the search's devices accepts shape s
Accepts(s) == ValidateShape(shrinkage, find.devices, s, find.train_mode).ok

\* C6: while find_one_shape runs, every dimension's slack stays within
\* [0, upper - lower], and a shape it returns lies within [lower, upper] on
\* every axis.
C6_ResultWithinBounds ==
    FindActive =>
        /\ \A i \in Axes : 0 <= find.diff[i] /\ find.diff[i] <= InitialSlack[i]
        /\ (FindDone /\ find.result # None) =>
              /\ ShapeLeq(find.lower_limit, find.result)
              /\ ShapeLeq(find.result, find.upper_limit)

C6_Witness ==
    /\ FindDone /\ find.result # None
    /\ find.discard = 2 /\ find.probes >= 3
    /\ find.result[2] < find.upper_limit[2] /\ find.result[3] < find.upper_limit[3]
    /\ find.result # find.lower_limit

\* C7 as stated: when find_one_shape returns None, no shape of
\* [lower, upper] is accepted by the validity probe.
C7_NoneMeansNoValidShape ==
    (FindDone /\ find.result = None) => \A s \in SearchBox : ~Accepts(s)

\* C7 amended: when find_one_shape returns None, every shape it probed was
\* rejected by the validity probe (as long as no shape has been returned, the
\* last probe failed and its shape is still not accepted), upper is rejected
\* unless lower = upper, and lower was never probed.
C7_NoneMeansProbedRejected ==
    /\ (FindActive /\ find.probes > 0 /\ ~(FindDone /\ find.result # None)) =>
          /\ ~lastProbe.ok
          /\ ~Accepts(lastProbe.shape)
          /\ lastProbe.shape # find.lower_limit
    /\ (FindDone /\ find.result = None) =>
          \/ find.lower_limit = find.upper_limit /\ find.probes = 0
          \/ find.probes > 0 /\ ~Accepts(find.upper_limit)

C7_Witness ==
    /\ FindDone /\ find.result = None
    /\ find.probes >= 3
    /\ Accepts(find.lower_limit)

\* the end-to-end scenario is running
InScenario == find.lower_limit = ScenarioLower /\ find.upper_limit = ScenarioUpper

\* C8: find_one_shape terminates; it makes at most sum(upper - lower) probes,
\* because every failed probe strictly decreases the total slack; with bounds
\* (1, 4, 4) and (1, 64, 64) and a probe accepting exactly h <= 32 it returns
\* a shape with h <= 32.
C8_TerminatesWithinBoundedProbes ==
    /\ [](FindActive => find.probes <= Sum(InitialSlack))
    /\ [][(FindActive /\ find'.probes # find.probes /\ find'.pc # "done") =>
             Sum(find'.diff) < Sum(find.diff)]_vars
    /\ []((FindDone /\ InScenario) => (find.result # None /\ find.result[2] <= 32))
    /\ <>FindDone

C8_Witness ==
    /\ FindDone /\ InScenario
    /\ find.result = <<1, 32, 32>>
    /\ find.probes = 65

(***************************************************************************)
(* Claims about the engine.                                                *)
(***************************************************************************)

\* the last validate_shape call computed a shrinkage that differs from the
\* one recorded when it was called
ProbeMismatch ==
    /\ lastProbe.n > 0
    /\ lastProbe.before # None
    /\ lastProbe.computed # None
    /\ lastProbe.computed # lastProbe.before

\* C9: a validate_shape probe that computes a shrinkage different from the one
\* already recorded (supplied by a dry_run caller or set by an earlier probe)
\* returns False and leaves the recorded shrinkage as it was.
C9_ShrinkageMismatchRejected ==
    ProbeMismatch =>
        /\ ~lastProbe.ok
        /\ lastProbe.after = lastProbe.before
        /\ shrinkage = lastProbe.before

\* recorded by a probe of an earlier job: no caller supplies (2, 2)
C9_Witness ==
    /\ ProbeMismatch
    /\ lastProbe.before = <<2, 2>> /\ lastProbe.computed = <<1, 1>>
    /\ worker.pc = "valid" /\ worker.job.shrinkage = None
    /\ Len(resolved) = 1

\* the DryRun thread is inside _dry_run
InJob == worker.pc \in {"dry_run", "train", "find", "valid"}

\* C10: jobs are started in submission order and futures are resolved in
\* that order; a job starts only when the futures of all requests submitted
\* before it are resolved.
C10_SubmissionOrder ==
    /\ \A i \in 1..Len(started) : started[i] = i
    /\ \A i \in 1..Len(resolved) : resolved[i] = i
    /\ Len(resolved) <= Len(started) /\ Len(started) <= Len(futures)
    /\ \A i \in 1..Len(futures) : futures[i] # Pending <=> i <= Len(resolved)
    /\ Len(started) = Len(resolved) + (IF InJob THEN 1 ELSE 0)
    /\ InJob => worker.job.fut = Len(started)
    /\ \A k \in 1..Len(dry_run_queue) : dry_run_queue[k].fut = Len(started) + k

C10_Witness ==
    /\ started = <<1, 2>> /\ resolved = <<1>>
    /\ futures[1].status = "exception" /\ futures[2] = Pending
    /\ worker.pc = "find" /\ find.probes = 2
    /\ shutdown_event

(***************************************************************************)
(* Claims about the engine's queue, its worker thread and shutdown.        *)
(***************************************************************************)

\* request i has been submitted and its future holds a result or an exception
Resolved(i) == i <= Len(futures) /\ futures[i] # Pending

\* C11: every dry_run request ever submitted eventually has its future
\* resolved, with a result or a failure, and a resolved future is never
\* resolved again; this includes the requests still queued, or submitted, when
\* shutdown is called.
C11_EveryRequestResolved ==
    /\ \A i \in 1..MaxJobs : [](Len(futures) >= i => <>Resolved(i))
    /\ [][\A i \in 1..Len(futures) : futures[i] # Pending => futures'[i] = futures[i]]_vars

\* a request left pending for ever: the thread has left its loop, the request
\* is still in the queue, the shutdown call has returned
C11_Witness ==
    /\ worker.pc = "exited"
    /\ shut = "returned"
    /\ Len(dry_run_queue) = 2
    /\ ~dry_run_queue[1].after_shutdown /\ dry_run_queue[2].after_shutdown
    /\ futures = <<Pending, Pending>>

\* C12: at most one probe sequence runs at any instant, whatever callers
\* submit: a job is started only when no job is in flight and the futures of
\* all jobs started before it are resolved, and every probe and every search
\* step belongs to the one job in flight.
C12_OneJobAtATime ==
    /\ [][started' # started =>
             /\ ~InJob
             /\ \A k \in 1..Len(started) : Resolved(started[k])
             /\ Len(started') = Len(started) + 1]_vars
    /\ [][lastProbe' # lastProbe =>
             /\ InJob /\ worker.job.fut = started[Len(started)]
             /\ lastProbe'.devices = worker.job.devices
             /\ started' = started]_vars
    /\ [](find.pc # "idle" => worker.pc = "find")
    /\ [](Len(started) - Len(resolved) \in {0, 1})

\* a second request waits in the queue while the first one is probing
C12_Witness ==
    /\ started = <<1>> /\ resolved = <<>>
    /\ Len(dry_run_queue) = 1 /\ dry_run_queue[1].fut = 2
    /\ worker.pc = "find" /\ find.probes >= 1
    /\ lastProbe.n > 0 /\ ~shutdown_event

\* request i has been submitted and its future holds an exception
Failed(i) == Resolved(i) /\ futures[i].status = "exception"

\* C13: a failure raised while a job runs becomes the exception of that job's
\* future and of no other, and the thread goes back to its loop; the loop is
\* left only after shutdown was requested, and as long as it is not requested
\* every submitted request, those queued behind a failed one included, is
\* eventually resolved.
C13_FailureStaysInItsJob ==
    /\ [][\A i \in 1..Len(futures) :
             (futures[i] = Pending /\ futures'[i] # Pending /\ futures'[i].status = "exception") =>
                /\ InJob /\ worker.job.fut = i
                /\ \A j \in 1..Len(futures) : j # i => futures'[j] = futures[j]
                /\ worker'.pc = "loop"
                /\ dry_run_queue' = dry_run_queue]_vars
    /\ [](worker.pc = "exited" => shutdown_event)
    /\ \A i \in 1..MaxJobs : [](Len(futures) >= i => <>(Resolved(i) \/ shutdown_event))

\* the search of the first job found nothing on an unusable device; the second
\* job, queued behind it, has delivered a result
C13_Witness ==
    /\ Len(futures) = 2 /\ ~shutdown_event
    /\ Failed(1)
    /\ futures[1].error = "AttributeError: 'NoneType' object has no attribute 'drop_batch'"
    /\ futures[2].status = "result"
    /\ worker.pc \in {"loop", "get"}

\* C14: after shutdown is requested the job in flight runs to completion, no
\* request submitted after the shutdown request is taken up for execution,
\* the worker loop eventually exits, and the shutdown call returns, the worker
\* stopped or not.
C14_GracefulShutdown ==
    /\ [][(InJob /\ shutdown_event) =>
              \/ InJob' /\ worker'.job = worker.job
              \/ futures'[worker.job.fut] # Pending /\ worker'.pc = "loop"
              \/ UNCHANGED engineVars]_vars
    /\ [](InJob => ~worker.job.after_shutdown)
    /\ [](shutdown_event => <>(worker.pc = "exited"))
    /\ [](shut = "join" => <>(shut \in {"returned", "returned after timeout"}))

\* a request submitted after shutdown() is being executed: the thread was
\* waiting in queue.get when the event was set
C14_Witness ==
    /\ shutdown_event /\ shut # "none"
    /\ InJob /\ worker.job.after_shutdown
    /\ worker.pc = "find" /\ find.probes >= 1
    /\ started = <<1>>

(***************************************************************************)
(* Claims about one dry run.                                               *)
(***************************************************************************)

EmptyDeviceList == "ValueError: Dry run on empty device list"

\* C15: a dry_run submitted with an empty device list resolves its future with
\* the invalid-argument failure in the first step of the job: no probe is run,
\* no search is entered, and the recorded training_shape, valid_shapes and
\* shrinkage stay as they were, whatever shrinkage or training_shape came with
\* the request.
C15_EmptyDeviceListRejected ==
    /\ [][(worker.pc = "dry_run" /\ worker.job.devices = <<>> /\ worker' # worker) =>
             /\ futures'[worker.job.fut] = [status |-> "exception", error |-> EmptyDeviceList]
             /\ worker' = Thread("loop")
             /\ UNCHANGED <<shrinkage, training_shape, valid_shapes, lastProbe, find>>]_vars
    /\ []((InJob /\ worker.pc # "dry_run") => worker.job.devices # <<>>)
    /\ [](lastProbe.n > 0 => lastProbe.devices # <<>>)

\* the request came with a training shape and a shrinkage; nothing is recorded
\* and nothing was probed
C15_Witness ==
    /\ Failed(1) /\ futures[1].error = EmptyDeviceList
    /\ shrinkage = None /\ training_shape = None /\ valid_shapes = None
    /\ lastProbe = NoProbe
    /\ started = <<1>> /\ worker.pc = "loop"

NothingFound == "AttributeError: 'NoneType' object has no attribute 'drop_batch'"

\* C16: when find_one_shape returns no result the job's future is resolved
\* with a failure and training_shape stays unrecorded; a training shape is
\* only ever recorded from a shape a probe accepted, never from a default; and
\* a later dry_run that gets past its argument checks determines the training
\* shape again.
C16_NothingFoundFails ==
    /\ [][(worker.pc = "find" /\ find.pc = "done" /\ find.result = None /\ worker' # worker) =>
             /\ futures'[worker.job.fut] = [status |-> "exception", error |-> NothingFound]
             /\ training_shape = None /\ training_shape' = None
             /\ valid_shapes' = valid_shapes
             /\ worker' = Thread("loop")]_vars
    /\ [][training_shape' # training_shape =>
             /\ training_shape = None
             /\ lastProbe'.n > 0 /\ lastProbe'.ok
             /\ training_shape' = drop_batch(lastProbe'.shape)
             /\ worker.pc = "find" => find.result = lastProbe'.shape]_vars
    /\ [][(worker.pc = "dry_run" /\ training_shape = None /\ worker' # worker /\ InJob') =>
             worker'.pc = "train"]_vars

\* the first job's search found nothing; the second job is searching again
C16_Witness ==
    /\ Failed(1) /\ futures[1].error = NothingFound
    /\ started = <<1, 2>> /\ resolved = <<1>>
    /\ training_shape = None
    /\ worker.pc = "find" /\ find.probes >= 1

\* C17: a device that fails minimal_device_test does not abort the dry run,
\* and every validity probe of that dry run, and the device list of its
\* result, name only devices that passed the minimal test.
C17_FailedDevicesExcluded ==
    /\ [][(worker.pc = "dry_run" /\ worker' # worker /\ worker.job.devices # <<>>
            /\ MinimalDeviceTest(worker.job.devices) # <<>>
            /\ (shrinkage = None \/ worker.job.shrinkage \in {None, shrinkage})
            /\ (training_shape = None \/ worker.job.training_shape \in {None, training_shape})) =>
              InJob']_vars
    /\ [][(InJob /\ lastProbe' # lastProbe) =>
              Range(lastProbe'.devices) \subseteq Range(worker.working)]_vars
    /\ [][(InJob /\ futures' # futures /\ futures'[worker.job.fut].status = "result") =>
              Range(futures'[worker.job.fut].devices) \subseteq Range(worker.working)]_vars

\* the second device failed the minimal test and is probed all the same
C17_Witness ==
    /\ worker.pc = "find" /\ find.probes >= 1
    /\ worker.job.devices = <<"cpu", "gpu0">>
    /\ worker.working = <<"cpu">>
    /\ lastProbe.devices = <<"cpu", "gpu0">> /\ ~lastProbe.ok
    /\ started = <<1>>

\* v is a point and not a Python bool
IsShape(v) == ToString(v) \notin {"TRUE", "FALSE"}

\* C18: in the record a successful dry_run resolves, valid_shapes is
\* [training_shape] when the caller supplied no valid_shapes; otherwise each of
\* its entries is a shape, one of the supplied ones, that passes an
\* inference-mode probe on the job's devices.
C18_ValidShapesAreShapes ==
    [][(worker.pc = "valid" /\ futures' # futures
        /\ futures'[worker.job.fut].status = "result") =>
          LET r == futures'[worker.job.fut]
              supplied == worker.job.valid_shapes
          IN  /\ r.valid_shapes = valid_shapes'
              /\ IF supplied = None
                 THEN r.valid_shapes = <<r.training_shape>>
                 ELSE \A k \in 1..Len(r.valid_shapes) :
                         /\ IsShape(r.valid_shapes[k])
                         /\ r.valid_shapes[k] \in Range(supplied)
                         /\ ValidateShape(shrinkage, worker.job.devices,
                                          add_batch(r.valid_shapes[k], 1), FALSE).ok]_vars

\* the caller supplied (1, 1) and (2, 2): the record holds the two probe
\* verdicts in their place
C18_Witness ==
    /\ Len(futures) >= 1 /\ futures[1].status = "result"
    /\ ToString(futures[1].valid_shapes) = "<<FALSE, TRUE>>"
    /\ ToString(valid_shapes) = "<<FALSE, TRUE>>"
    /\ shrinkage = <<1, 1>>

IncompatibleShrinkage == "ValueError: given shrinkage incompatible with self.shrinkage"
IncompatibleTrainingShape ==
    "ValueError: given training_shape incompatible with self.training_shape"

\* the DryRun thread takes the first step of _dry_run
BeginStep == worker.pc = "dry_run" /\ worker' # worker

\* C19: a dry_run that supplies a shrinkage different from the recorded one,
\* or a training_shape different from the recorded one, resolves its future
\* with a failure; with devices given, and each supplied value absent or equal
\* to what is recorded, the job does not fail at these checks but goes on.
C19_MismatchFails ==
    /\ [][(BeginStep /\ shrinkage # None /\ worker.job.shrinkage # None
            /\ worker.job.shrinkage # shrinkage) =>
              /\ futures'[worker.job.fut].status = "exception"
              /\ worker.job.devices # <<>> =>
                    futures'[worker.job.fut].error = IncompatibleShrinkage]_vars
    /\ [][(BeginStep /\ training_shape # None /\ worker.job.training_shape # None
            /\ worker.job.training_shape # training_shape) =>
              /\ futures'[worker.job.fut].status = "exception"
              /\ (worker.job.devices # <<>>
                  /\ (shrinkage = None \/ worker.job.shrinkage \in {None, shrinkage})) =>
                    futures'[worker.job.fut].error = IncompatibleTrainingShape]_vars
    /\ [][(BeginStep /\ worker.job.devices # <<>>
            /\ (shrinkage = None \/ worker.job.shrinkage \in {None, shrinkage})
            /\ (training_shape = None \/ worker.job.training_shape \in {None, training_shape})) =>
              /\ futures' = futures
              /\ worker'.pc = IF training_shape = None THEN "train" ELSE "valid"]_vars

\* the second request came with the recorded shrinkage (0, 0) and with a
\* training shape other than the recorded one
C19_Witness ==
    /\ Len(futures) = 2 /\ futures[1].status = "result" /\ Failed(2)
    /\ futures[2].error = IncompatibleTrainingShape
    /\ training_shape = <<3, 3>> /\ shrinkage = <<0, 0>>

\* C20: over any sequence of dry_run calls the recorded training_shape and the
\* recorded shrinkage, once non-null, never change again; every record a
\* successful dry_run resolves therefore carries the same two values.
C20_RecordedOnce ==
    /\ [][shrinkage # None => shrinkage' = shrinkage]_vars
    /\ [][training_shape # None => training_shape' = training_shape]_vars
    /\ [](\A i \in 1..Len(futures) :
             futures[i].status = "result" =>
                /\ futures[i].training_shape = training_shape /\ training_shape # None
                /\ futures[i].shrinkage = shrinkage /\ shrinkage # None)

\* after a first success, a request with another shrinkage has failed and a
\* probe has computed yet another one: the record is that of the first success
C20_Witness ==
    /\ Len(futures) = 2 /\ futures[1].status = "result" /\ Failed(2)
    /\ futures[1].shrinkage = shrinkage /\ futures[1].training_shape = training_shape
    /\ futures[2].error = IncompatibleShrinkage
    /\ lastProbe.n > 0 /\ lastProbe.after = shrinkage

(***************************************************************************)
(* Claims about the validity probe, the pinned training shape, the search. *)
(***************************************************************************)

\* what each device of the last probe gives for the probed shape
ProbeOutputs ==
    [i \in 1..Len(lastProbe.devices) |->
        RunOnDevice(lastProbe.devices[i], lastProbe.shape, lastProbe.train_mode)]
ProbeRaised == \E i \in 1..Len(ProbeOutputs) : ProbeOutputs[i] = Err
ProbeDiverged == \E i, j \in 1..Len(ProbeOutputs) : ProbeOutputs[i] # ProbeOutputs[j]

\* C21: validate_shape accepts a shape only if every device of the list ran
\* the probe without an error and all devices gave the same output shape; an
\* error on one device, or differing output shapes, makes it return False
\* without computing a shrinkage and with the recorded shrinkage unchanged.
C21_AllDevicesMustAgree ==
    lastProbe.n > 0 =>
        /\ lastProbe.ok => ~ProbeRaised /\ ~ProbeDiverged
        /\ (ProbeRaised \/ ProbeDiverged) =>
              /\ ~lastProbe.ok
              /\ lastProbe.computed = None
              /\ lastProbe.after = lastProbe.before
              /\ shrinkage = lastProbe.before

\* both devices ran the shape and gave different output shapes, with nothing
\* recorded before
C21_Witness ==
    /\ lastProbe.n > 0 /\ lastProbe.devices = <<"cpu", "gpu0">>
    /\ ~ProbeRaised /\ ProbeDiverged
    /\ ~lastProbe.ok /\ lastProbe.before = None /\ shrinkage = None

\* the pinned training shape of the configuration, as a batch shape
Pinned == add_batch(config.training_shape, config.batch_size)
PinnedInBounds ==
    /\ config.upper = None \/ ShapeLeq(Pinned, add_batch(config.upper, config.batch_size))
    /\ ShapeLeq(IF config.lower = None THEN ZeroShape
                ELSE add_batch(config.lower, config.batch_size), Pinned)
\* the DryRun thread determines the training shape from a pinned one
PinnedStep == worker.pc = "train" /\ config.training_shape # None /\ worker' # worker

\* C22: with a training shape pinned by the configuration, a dry_run records
\* it as training_shape only if it lies within the configured bounds, equals
\* the training shape the caller supplied (if any) and passes a train-mode
\* probe on the job's devices; otherwise the dry run fails and no
\* training_shape is recorded.
C22_PinnedShapeValidated ==
    [][PinnedStep =>
         LET job == worker.job
             agrees == job.training_shape \in {None, config.training_shape}
             passes == ValidateShape(shrinkage, job.devices, Pinned, TRUE).ok
         IN  /\ training_shape = None
             /\ training_shape' # None =>
                   /\ PinnedInBounds /\ agrees /\ passes
                   /\ lastProbe'.shape = Pinned /\ lastProbe'.train_mode /\ lastProbe'.ok
             /\ (PinnedInBounds /\ agrees /\ passes) =>
                   /\ training_shape' = config.training_shape
                   /\ futures' = futures /\ worker'.pc = "valid"
             /\ ~(PinnedInBounds /\ agrees /\ passes) =>
                   /\ futures'[job.fut].status = "exception"
                   /\ training_shape' = None]_vars

\* the pinned shape (3, 3) lies above the upper bound (2, 2): the job has
\* failed without a probe and nothing is recorded
C22_Witness ==
    /\ config.training_shape = <<3, 3>> /\ config.upper = <<2, 2>>
    /\ Failed(1)
    /\ futures[1].error = "ValueError: training_shape incompatible with upper bound"
    /\ training_shape = None /\ lastProbe = NoProbe
    /\ world.cap["cpu"] = MaxExt

Clamp(v, lo, hi) == IF v < lo THEN lo ELSE IF v > hi THEN hi ELSE v
\* floor((1 - discard) * old_slack) - 1, clamped to [0, old_slack]
ClampedSlack(discardNum, old) ==
    Clamp((((DiscardDen - discardNum) * old) \div DiscardDen) - 1, 0, old)

\* the dimension the for loop is about to probe and reduce
VisitedDim == find.nonzero_index[find.search_order[find.pos]]

\* C23: in each pass the free dimensions, and only they, are visited once
\* each in order of their slack, largest first, and after a failed probe the
\* slack of the visited dimension, which is at least 1, becomes
\* floor((1 - discard) * old_slack) - 1 clamped to [0, old_slack], the other
\* slacks staying as they are.
C23_SlackReduction ==
    /\ [](find.pc = "for" =>
            LET o == find.search_order
            IN  /\ Len(o) = find.ndiff /\ Range(o) = 1..find.ndiff
                /\ \A i \in 1..(Len(o) - 1) : find.nonzero[o[i]] >= find.nonzero[o[i + 1]]
                /\ \A k \in find.pos..Len(o) :
                      /\ find.diff[find.nonzero_index[o[k]]] = find.nonzero[o[k]]
                      /\ find.nonzero[o[k]] >= 1
                /\ \A a \in Axes : a \notin Range(find.nonzero_index) => find.diff[a] = 0)
    /\ [][(find.pc = "for" /\ find'.pc = "for" /\ find'.probes = find.probes + 1) =>
             LET old == find.diff[VisitedDim]
                 new == find'.diff[VisitedDim]
             IN  /\ old >= 1
                 /\ new = ClampedSlack(find.discard, old)
                 /\ 0 <= new /\ new <= old
                 /\ \A a \in Axes : a # VisitedDim => find'.diff[a] = find.diff[a]
                 /\ find'.pos = find.pos + 1
                 /\ find'.search_order = find.search_order]_vars

\* discard 1/2: a pass over slacks 3 and 1 has visited the larger one first
\* and has taken both to 0 (1/2 * 1 - 1 is truncated to 0)
C23_Witness ==
    /\ find.pc = "for" /\ find.discard = 2 /\ find.pos = 3
    /\ Len(find.search_order) = 2
    /\ find.nonzero[find.search_order[1]] = 3 /\ find.nonzero[find.search_order[2]] = 1
    /\ find.diff[find.nonzero_index[find.search_order[1]]] = 0
    /\ find.diff[find.nonzero_index[find.search_order[2]]] = 0
    /\ ~lastProbe.ok

\* C24: a dry_run whose future is resolved with a failure leaves the recorded
\* training_shape, valid_shapes and shrinkage as they were when the job was
\* started: neither a shrinkage the caller supplied nor one a probe of the
\* failed run determined is retained.
C24_FailureLeavesRecord ==
    [][(InJob /\ futures[worker.job.fut] = Pending
        /\ futures'[worker.job.fut].status = "exception") =>
          /\ shrinkage' = worker.at_start.shrinkage
          /\ training_shape' = worker.at_start.training_shape
          /\ valid_shapes' = worker.at_start.valid_shapes]_vars

\* the first request supplied the shrinkage (1, 1) and failed; the model
\* keeps the extents, and every probe of the second request, which supplied
\* nothing, is rejected against the retained (1, 1)
C24_Witness ==
    /\ Failed(1) /\ started = <<1, 2>>
    /\ worker.pc = "find" /\ worker.job.shrinkage = None
    /\ worker.at_start.shrinkage = <<1, 1>> /\ worker.at_start.training_shape = None
    /\ lastProbe.before = <<1, 1>> /\ lastProbe.computed = <<0, 0>> /\ ~lastProbe.ok
    /\ world.shrink = 0 /\ ~world.pool

\* C25: every training_shape a dry_run records was accepted by a train-mode
\* validity probe on the job's devices, whether the configuration pins the
\* shape or find_one_shape finds it.
C25_TrainingShapeTrainable ==
    [][training_shape' # training_shape =>
         /\ lastProbe'.n > 0 /\ lastProbe'.ok
         /\ lastProbe'.shape = add_batch(training_shape', config.batch_size)
         /\ lastProbe'.devices = worker.job.devices
         /\ lastProbe'.train_mode]_vars

\* the search has recorded (3, 3), accepted by a forward pass only: a
\* train-mode probe of that shape on the same device fails
C25_Witness ==
    /\ world = TrainCostWorld
    /\ training_shape = <<3, 3>>
    /\ lastProbe.ok /\ ~lastProbe.train_mode /\ lastProbe.shape = <<1, 3, 3>>
    /\ ~ValidateShape(shrinkage, lastProbe.devices, <<1, 3, 3>>, TRUE).ok
    /\ ValidateShape(shrinkage, lastProbe.devices, <<1, 2, 2>>, TRUE).ok
    /\ Len(futures) >= 1 /\ futures[1].status = "result"
    /\ futures[1].training_shape = <<3, 3>>

\* C26: every candidate find_one_shape probes is lower_limit + diff, the
\* slack of the dimension about to be reduced still being at least 1, so the
\* candidate lies above lower_limit and is never lower_limit itself; with
\* lower_limit = upper_limit the search returns None without a probe.
C26_ProbedAboveLower ==
    /\ [][find'.probes # find.probes =>
             /\ find.pc = "for" /\ find'.probes = find.probes + 1
             /\ find.diff[VisitedDim] >= 1
             /\ lastProbe'.shape = VecAdd(find.lower_limit, find.diff)
             /\ ShapeLeq(find.lower_limit, lastProbe'.shape)
             /\ lastProbe'.shape[VisitedDim] > find.lower_limit[VisitedDim]
             /\ lastProbe'.shape # find.lower_limit]_vars
    /\ [](find.lower_limit = find.upper_limit =>
             /\ find.probes = 0 /\ lastProbe = NoProbe
             /\ find.pc \in {"while", "done"}
             /\ FindDone => find.result = None)

\* the search has given up after its last probe, one step above a lower
\* limit that the devices would accept: the lower limit was never tried
C26_Witness ==
    /\ FindDone /\ find.result = None /\ find.probes >= 2
    /\ find.diff = <<0, 0, 0>>
    /\ ~lastProbe.ok
    /\ \E a \in Axes :
          lastProbe.shape = [find.lower_limit EXCEPT ![a] = @ + 1]
    /\ find.lower_limit # find.upper_limit
    /\ \A d \in Range(find.devices) :
          RunOnDevice(d, find.lower_limit, find.train_mode) # Err


====
